---------------------------- MODULE Spec2Model ----------------------------
(***************************************************************************)
(* Model of stub/model.go: the structural JSON matcher behind              *)
(* JsonString.Matches / JsonString.Equals, the JsonString codec            *)
(* (UnmarshalJSON / MarshalJSON) and the decoding of a stub's type tag.    *)
(*                                                                         *)
(* A decoded JSON value (what encoding/json stores in an interface{}) is a *)
(* record [type, val]: type is the Go dynamic type name that               *)
(* fmt.Sprintf("%T", v) prints, val the payload.  A decoded object         *)
(* (map[string]interface{}) is a function from field names to values; the  *)
(* nil map of a failed decode is the function with the empty domain.       *)
(***************************************************************************)
EXTENDS Integers, Sequences, FiniteSets, TLC

VARIABLES
    jsonMap,        \* decoded receiver content (the stub's expected content)
    otherJsonMap,   \* decoded argument content (the request's actual content)
    mustBeEqual,    \* mode of the last comparison: TRUE = Equals, FALSE = Matches
    result,         \* outcome of the last comparison
    pc,             \* where the run stands
    rawStub,        \* a stub record to decode: field name -> raw JSON text
    stub,           \* the stub: Type (StubType), Match, Content (JsonString)
    other,          \* the JsonString passed to Matches / Equals
    emitted         \* the JSON text last produced from the stub's request

vars == <<jsonMap, otherJsonMap, mustBeEqual, result, pc, rawStub, stub, other, emitted>>

-----------------------------------------------------------------------------
(* Bounds of the model.                                                    *)

\* Largest number of nodes (objects, arrays, scalars) of an input document.
MaxNodes == 3
\* Largest number of nodes of a document given as JSON text.
MaxTextNodes == 2

\* Field names of the input documents.
Keys == {"a", "b"}

-----------------------------------------------------------------------------
(* Decoded JSON values.                                                    *)

MapType == "map[string]interface {}"
SliceType == "[]interface {}"
Float64Type == "float64"
StringType == "string"
NilType == "<nil>"

Num(n) == [type |-> Float64Type, val |-> n]
Str(s) == [type |-> StringType, val |-> s]
Nil == [type |-> NilType, val |-> 0]
Arr(items) == [type |-> SliceType, val |-> items]
Obj(fields) == [type |-> MapType, val |-> fields]

\* The map with no field; also the nil map left by a failed decode.
EmptyMap == [k \in {} |-> Nil]

Scalars == {Num(1), Num(2), Str("1")}

\* fmt.Sprintf("%T", v)
TypeOf(v) == v.type
IsMap(v) == TypeOf(v) = MapType
IsSlice(v) == TypeOf(v) = SliceType

RECURSIVE ValuesOfSize(_), FieldsOfSize(_, _), ItemsOfSize(_, _)

\* All maps over the field names ks whose values have n nodes in total.
FieldsOfSize(ks, n) ==
    IF ks = {} THEN (IF n = 0 THEN {EmptyMap} ELSE {})
    ELSE LET k == CHOOSE x \in ks : TRUE
             rest == ks \ {k}
         IN  FieldsOfSize(rest, n)
             \cup UNION { { [x \in (DOMAIN f) \cup {k} |-> IF x = k THEN v ELSE f[x]] :
                              f \in FieldsOfSize(rest, n - i), v \in ValuesOfSize(i) } :
                          i \in 1..n }

\* All sequences of len values that have n nodes in total.
ItemsOfSize(len, n) ==
    IF len = 0 THEN (IF n = 0 THEN {<<>>} ELSE {})
    ELSE UNION { { <<v>> \o s : v \in ValuesOfSize(i), s \in ItemsOfSize(len - 1, n - i) } :
                 i \in 1..n }

\* All decoded values with exactly n nodes.
ValuesOfSize(n) ==
    IF n < 1 THEN {}
    ELSE (IF n = 1 THEN Scalars ELSE {})
         \cup { Obj(f) : f \in FieldsOfSize(Keys, n - 1) }
         \cup UNION { { Arr(s) : s \in ItemsOfSize(len, n - 1) } : len \in 0..(n - 1) }

\* The decoded top-level objects of at most MaxNodes nodes.
SmallDocuments == UNION { FieldsOfSize(Keys, n - 1) : n \in 1..MaxNodes }

\* Array elements of the documents below: every scalar, an empty and a
\* one-field object, and an array.
Elements == Scalars \cup {Obj(EmptyMap), Obj([k \in {"b"} |-> Num(1)]), Arr(<<>>)}

\* Documents whose field "a" is an array of two elements, and documents with
\* a scalar field "a" beside a field "b" that is an array of one element.
ArrayDocuments ==
    { [k \in {"a"} |-> Arr(<<x, y>>)] : x \in Elements, y \in Elements }
    \cup { [k \in {"a", "b"} |-> IF k = "a" THEN v ELSE Arr(<<x>>)] :
               v \in Scalars, x \in Elements }

\* The decoded contents the comparisons are run on.
Documents == SmallDocuments \cup ArrayDocuments

-----------------------------------------------------------------------------
(* The comparator.                                                         *)

RetTrue == "true"
RetFalse == "false"
\* A run-time panic (comparing uncomparable type []interface {}).
Panic == "panic"

\* The orders in which `range jsonMap` may visit the field names.
Orders == { o \in [1..Cardinality(Keys) -> Keys] : \A k \in Keys : \E i \in DOMAIN o : o[i] = k }

RECURSIVE jsonStringMatches(_, _, _, _), rangeJsonMap(_, _, _, _, _),
          rangeItems(_, _, _, _), rangeOtherItems(_, _, _, _, _)

\* Inner loop (lines 156-176): item against every otherItem, in order.
\* `break` leaves only the switch, so every otherItem is visited.
rangeOtherItems(item, otherItems, found, mustEq, order) ==
    IF otherItems = <<>> THEN (IF found THEN RetTrue ELSE RetFalse)
    ELSE LET otherItem == Head(otherItems)
             itemType == TypeOf(item)
             otherItemType == TypeOf(otherItem)
         IN  IF itemType # otherItemType
             THEN rangeOtherItems(item, Tail(otherItems), found, mustEq, order)
             ELSE IF itemType = MapType
             THEN LET r == jsonStringMatches(item.val, otherItem.val, mustEq, order)
                  IN  IF r = Panic THEN Panic
                      ELSE rangeOtherItems(item, Tail(otherItems),
                                           found \/ r = RetTrue, mustEq, order)
             ELSE IF itemType = SliceType
             THEN Panic   \* item == otherItem on two []interface{} values
             ELSE rangeOtherItems(item, Tail(otherItems),
                                  found \/ item = otherItem, mustEq, order)

\* Outer loop (lines 154-180): every item needs a counterpart.
rangeItems(items, otherItems, mustEq, order) ==
    IF items = <<>> THEN RetTrue
    ELSE LET r == rangeOtherItems(Head(items), otherItems, FALSE, mustEq, order)
         IN  IF r = RetTrue THEN rangeItems(Tail(items), otherItems, mustEq, order)
             ELSE r

\* matchKey without the comparison of the two lengths (lines 151-153).
matchKeyNoLength(key, jsonMap_, otherJsonMap_, mustEq, order) ==
    IF key \notin DOMAIN otherJsonMap_ THEN RetFalse
    ELSE LET value == jsonMap_[key]
             otherValue == otherJsonMap_[key]
         IN  IF TypeOf(value) # TypeOf(otherValue) THEN RetFalse
             ELSE IF TypeOf(value) = MapType
             THEN jsonStringMatches(value.val, otherValue.val, mustEq, order)
             ELSE IF TypeOf(value) = SliceType
             THEN rangeItems(value.val, otherValue.val, mustEq, order)
             ELSE IF value # otherValue THEN RetFalse ELSE RetTrue

\* One iteration of `for key, value := range jsonMap` (lines 131-185):
\* RetTrue when the loop goes on to the next key.
matchKey(key, jsonMap_, otherJsonMap_, mustEq, order) ==
    IF key \notin DOMAIN otherJsonMap_ THEN RetFalse
    ELSE LET value == jsonMap_[key]
             otherValue == otherJsonMap_[key]
             valueType == TypeOf(value)
             otherValueType == TypeOf(otherValue)
         IN  IF valueType # otherValueType THEN RetFalse
             ELSE IF valueType = MapType
             THEN jsonStringMatches(value.val, otherValue.val, mustEq, order)
             ELSE IF valueType = SliceType
             THEN IF Len(value.val) # Len(otherValue.val) THEN RetFalse
                  ELSE rangeItems(value.val, otherValue.val, mustEq, order)
             ELSE IF value # otherValue THEN RetFalse ELSE RetTrue

\* The loop over the keys of jsonMap, in the order the runtime picked.
rangeJsonMap(keys, jsonMap_, otherJsonMap_, mustEq, order) ==
    IF keys = <<>> THEN RetTrue
    ELSE LET r == matchKey(Head(keys), jsonMap_, otherJsonMap_, mustEq, order)
         IN  IF r = RetTrue
             THEN rangeJsonMap(Tail(keys), jsonMap_, otherJsonMap_, mustEq, order)
             ELSE r

\* jsonStringMatches without the comparison of the field counts.
jsonStringMatchesNoCount(jsonMap_, otherJsonMap_, mustEq, order) ==
    rangeJsonMap(SelectSeq(order, LAMBDA k : k \in DOMAIN jsonMap_),
                 jsonMap_, otherJsonMap_, mustEq, order)

\* jsonStringMatches comparing the field counts in both modes.
jsonStringMatchesAlwaysCount(jsonMap_, otherJsonMap_, mustEq, order) ==
    IF Cardinality(DOMAIN jsonMap_) # Cardinality(DOMAIN otherJsonMap_)
    THEN RetFalse
    ELSE rangeJsonMap(SelectSeq(order, LAMBDA k : k \in DOMAIN jsonMap_),
                      jsonMap_, otherJsonMap_, mustEq, order)

\* jsonStringMatches comparing the field counts in the wrong mode.
jsonStringMatchesCountWhenPartial(jsonMap_, otherJsonMap_, mustEq, order) ==
    IF ~mustEq /\ Cardinality(DOMAIN jsonMap_) # Cardinality(DOMAIN otherJsonMap_)
    THEN RetFalse
    ELSE rangeJsonMap(SelectSeq(order, LAMBDA k : k \in DOMAIN jsonMap_),
                      jsonMap_, otherJsonMap_, mustEq, order)

\* jsonStringMatches(jsonMap, otherJsonMap, mustBeEqual), the fields of every
\* map visited in the given order.
jsonStringMatches(jsonMap_, otherJsonMap_, mustEq, order) ==
    IF mustEq /\ Cardinality(DOMAIN jsonMap_) # Cardinality(DOMAIN otherJsonMap_)
    THEN RetFalse
    ELSE rangeJsonMap(SelectSeq(order, LAMBDA k : k \in DOMAIN jsonMap_),
                      jsonMap_, otherJsonMap_, mustEq, order)

-----------------------------------------------------------------------------
(* JSON text.  A text ([]byte, string, JsonString) is a sequence of        *)
(* one-character strings; the empty text is <<>>.                          *)

DQuote == "\""
Backslash == "\\"
\* Insignificant white space (of space, tab, CR and LF, the space).
WhiteSpace == {" "}
DigitChars == <<"0", "1", "2", "3", "4", "5", "6", "7", "8", "9">>
IsDigit(c) == \E d \in DOMAIN DigitChars : DigitChars[d] = c
DigitValue(c) == (CHOOSE d \in DOMAIN DigitChars : DigitChars[d] = c) - 1

Bool(b) == [type |-> "bool", val |-> b]

ParseError == [ok |-> FALSE, val |-> Nil, pos |-> 0]
Parsed(v, p) == [ok |-> TRUE, val |-> v, pos |-> p]

\* s holds the characters lit from position i on.
HasAt(s, i, lit) ==
    /\ i + Len(lit) - 1 <= Len(s)
    /\ \A j \in DOMAIN lit : s[i + j - 1] = lit[j]

RECURSIVE SkipSpace(_, _), ScanString(_, _, _), ScanDigits(_, _, _),
          ParseValue(_, _), ParseMembers(_, _, _), ParseElements(_, _, _)

SkipSpace(s, i) ==
    IF i <= Len(s) /\ s[i] \in WhiteSpace THEN SkipSpace(s, i + 1) ELSE i

\* The rest of a string literal whose opening quote is before position i;
\* the escapes \" and \\ are read, no other.
ScanString(s, i, acc) ==
    IF i > Len(s) THEN ParseError
    ELSE IF s[i] = DQuote THEN Parsed(Str(acc), i + 1)
    ELSE IF s[i] = Backslash
    THEN IF i + 1 <= Len(s) /\ s[i + 1] \in {DQuote, Backslash}
         THEN ScanString(s, i + 2, acc \o s[i + 1])
         ELSE ParseError
    ELSE ScanString(s, i + 1, acc \o s[i])

\* The rest of a number (integers only) whose first digits are worth acc.
ScanDigits(s, i, acc) ==
    IF i <= Len(s) /\ IsDigit(s[i]) THEN ScanDigits(s, i + 1, 10 * acc + DigitValue(s[i]))
    ELSE Parsed(Num(acc), i)

\* The members of an object after its "{" (or after a ","), acc holding the
\* members read so far; a repeated name keeps its last value.
ParseMembers(s, i, acc) ==
    IF i > Len(s) \/ s[i] # DQuote THEN ParseError
    ELSE LET name == ScanString(s, i + 1, "")
         IN  IF ~name.ok THEN ParseError
             ELSE LET colon == SkipSpace(s, name.pos)
                  IN  IF colon > Len(s) \/ s[colon] # ":" THEN ParseError
                      ELSE LET v == ParseValue(s, SkipSpace(s, colon + 1))
                           IN  IF ~v.ok THEN ParseError
                               ELSE LET key == name.val.val
                                        next == SkipSpace(s, v.pos)
                                        members == [x \in (DOMAIN acc) \cup {key} |->
                                                       IF x = key THEN v.val ELSE acc[x]]
                                    IN  IF next > Len(s) THEN ParseError
                                        ELSE IF s[next] = "}" THEN Parsed(Obj(members), next + 1)
                                        ELSE IF s[next] = ","
                                        THEN ParseMembers(s, SkipSpace(s, next + 1), members)
                                        ELSE ParseError

\* The elements of an array after its "[" (or after a ",").
ParseElements(s, i, acc) ==
    LET v == ParseValue(s, i)
    IN  IF ~v.ok THEN ParseError
        ELSE LET next == SkipSpace(s, v.pos)
                 items == Append(acc, v.val)
             IN  IF next > Len(s) THEN ParseError
                 ELSE IF s[next] = "]" THEN Parsed(Arr(items), next + 1)
                 ELSE IF s[next] = ","
                 THEN ParseElements(s, SkipSpace(s, next + 1), items)
                 ELSE ParseError

\* The JSON value that starts at position i, as encoding/json decodes it
\* into an interface{}.
ParseValue(s, i) ==
    IF i > Len(s) THEN ParseError
    ELSE IF s[i] = "{"
    THEN LET j == SkipSpace(s, i + 1)
         IN  IF j <= Len(s) /\ s[j] = "}" THEN Parsed(Obj(EmptyMap), j + 1)
             ELSE ParseMembers(s, j, EmptyMap)
    ELSE IF s[i] = "["
    THEN LET j == SkipSpace(s, i + 1)
         IN  IF j <= Len(s) /\ s[j] = "]" THEN Parsed(Arr(<<>>), j + 1)
             ELSE ParseElements(s, j, <<>>)
    ELSE IF s[i] = DQuote THEN ScanString(s, i + 1, "")
    ELSE IF s[i] = "0" THEN Parsed(Num(0), i + 1)
    ELSE IF IsDigit(s[i]) THEN ScanDigits(s, i, 0)
    ELSE IF HasAt(s, i, <<"n", "u", "l", "l">>) THEN Parsed(Nil, i + 4)
    ELSE IF HasAt(s, i, <<"t", "r", "u", "e">>) THEN Parsed(Bool(TRUE), i + 4)
    ELSE IF HasAt(s, i, <<"f", "a", "l", "s", "e">>) THEN Parsed(Bool(FALSE), i + 5)
    ELSE ParseError

\* The whole text as one JSON value; not ok when the text is not valid JSON.
ParseText(s) ==
    LET v == ParseValue(s, SkipSpace(s, 1))
    IN  IF v.ok /\ SkipSpace(s, v.pos) = Len(s) + 1 THEN v ELSE ParseError

jsonValid(s) == ParseText(s).ok

\* A decoder that keeps the fields it read before the text ended.
jsonUnmarshalMapKeepingFields(data) ==
    LET v == ParseText(data)
        w == ParseText(data \o <<"}">>)
    IN  IF v.ok /\ TypeOf(v.val) = MapType THEN v.val.val
        ELSE IF w.ok /\ TypeOf(w.val) = MapType THEN w.val.val
        ELSE EmptyMap

\* json.Unmarshal(data, m) for m a *map[string]interface{} that points to a
\* nil map (lines 111-114): a text that is not valid JSON, or is valid but
\* no object, leaves the map nil.
jsonUnmarshalMap(data) ==
    LET v == ParseText(data)
    IN  IF v.ok /\ TypeOf(v.val) = MapType THEN v.val.val ELSE EmptyMap

RECURSIVE StripSpace(_, _, _)
\* s from position i on without the white space outside string literals.
StripSpace(s, i, inString) ==
    IF i > Len(s) THEN <<>>
    ELSE IF inString
    THEN IF s[i] = Backslash /\ i + 1 <= Len(s)
         THEN <<s[i], s[i + 1]>> \o StripSpace(s, i + 2, TRUE)
         ELSE <<s[i]>> \o StripSpace(s, i + 1, s[i] # DQuote)
    ELSE IF s[i] \in WhiteSpace THEN StripSpace(s, i + 1, FALSE)
    ELSE <<s[i]>> \o StripSpace(s, i + 1, s[i] = DQuote)

\* json.Compact(buffer, data): on an error the buffer is left empty.
jsonCompact(data) ==
    IF jsonValid(data) THEN [err |-> FALSE, buffer |-> StripSpace(data, 1, FALSE)]
    ELSE [err |-> TRUE, buffer |-> <<>>]

RECURSIVE EscapeFrom(_, _)
EscapeFrom(s, i) ==
    IF i > Len(s) THEN <<>>
    ELSE (IF s[i] \in {DQuote, Backslash} THEN <<Backslash, s[i]>> ELSE <<s[i]>>)
         \o EscapeFrom(s, i + 1)

\* encoding/json's encoding of a Go string: quoted, with " and \ escaped.
jsonQuote(s) == <<DQuote>> \o EscapeFrom(s, 1) \o <<DQuote>>

-----------------------------------------------------------------------------
(* JsonString and StubType.                                                *)

EmptyObjectText == <<"{", "}">>

\* (j *JsonString) UnmarshalJSON(data): the error of Compact is only logged.
JsonString_UnmarshalJSON(data) == jsonCompact(data).buffer

\* (j *JsonString) MarshalJSON()
JsonString_MarshalJSON(j) == IF j = <<>> THEN EmptyObjectText ELSE j

\* (j *JsonString) Matches(other), the fields visited in the given order.
Matches(j, other_, order) ==
    jsonStringMatches(jsonUnmarshalMap(j), jsonUnmarshalMap(other_), FALSE, order)

\* (j *JsonString) Equals(other)
Equals(j, other_, order) ==
    jsonStringMatches(jsonUnmarshalMap(j), jsonUnmarshalMap(other_), TRUE, order)

\* (j *StubType) UnmarshalJSON(data).  json.Unmarshal(data, &str) leaves the
\* *string nil on a text that is not valid JSON and on null, points it to the
\* decoded string on a string, and to "" on any other value; *str on a nil
\* str panics.
StubType_UnmarshalJSON(data) ==
    LET v == ParseText(data)
    IN  IF ~v.ok \/ TypeOf(v.val) = NilType THEN [panic |-> TRUE, Type |-> ""]
        ELSE LET str == IF TypeOf(v.val) = StringType THEN v.val.val ELSE ""
             IN  [panic |-> FALSE, Type |-> IF str = "" THEN "mock" ELSE str]

\* The Stub before any field is decoded into it.
ZeroStub == [Type |-> "", Match |-> <<>>, Content |-> <<>>]

\* json.Unmarshal of a stub record into a zero Stub, for the fields type and
\* request.content: a record that is not valid JSON is rejected whole; the
\* UnmarshalJSON of a field is called when the record has the field.
UnmarshalStub(raw) ==
    IF \E f \in DOMAIN raw : ~jsonValid(raw[f])
    THEN [err |-> TRUE, panic |-> FALSE, stub |-> ZeroStub]
    ELSE LET t == IF "type" \in DOMAIN raw THEN StubType_UnmarshalJSON(raw["type"])
                  ELSE [panic |-> FALSE, Type |-> ZeroStub.Type]
             c == IF "content" \in DOMAIN raw THEN JsonString_UnmarshalJSON(raw["content"])
                  ELSE ZeroStub.Content
         IN  [err |-> FALSE, panic |-> t.panic,
              stub |-> [Type |-> t.Type, Match |-> ZeroStub.Match, Content |-> c]]

\* json.Marshal of a StubRequest with a nil Metadata.  The MarshalJSON of
\* Content has a pointer receiver: it is called when the request is
\* addressable (reached through a pointer), and its output is compacted; a
\* request passed by value has its Content encoded as a plain string.
marshalStubRequest(s, addressable) ==
    LET c == IF addressable THEN jsonCompact(JsonString_MarshalJSON(s.Content))
             ELSE [err |-> FALSE, buffer |-> jsonQuote(s.Content)]
    IN  IF c.err THEN [err |-> TRUE, data |-> <<>>]
        ELSE [err |-> FALSE,
              data |-> <<"{", "\"", "m", "a", "t", "c", "h", "\"", ":">> \o jsonQuote(s.Match)
                       \o <<",", "\"", "c", "o", "n", "t", "e", "n", "t", "\"", ":">> \o c.buffer
                       \o <<",", "\"", "m", "e", "t", "a", "d", "a", "t", "a", "\"", ":", "n", "u", "l", "l", "}">>]

\* (s StubRequest) String(): s is a value; the error is dropped.
StubRequest_String(s) == marshalStubRequest(s, FALSE).data

-----------------------------------------------------------------------------
(* The comparisons as operations on decoded contents: jsonMap and          *)
(* otherJsonMap are what the two json.Unmarshal calls of Matches / Equals  *)
(* left in the maps.                                                       *)

Init ==
    /\ jsonMap \in Documents
    /\ otherJsonMap \in Documents
    /\ mustBeEqual = FALSE
    /\ result = "none"
    /\ pc = "ready"
    /\ rawStub = EmptyMap
    /\ stub = ZeroStub
    /\ other = <<>>
    /\ emitted = <<>>

\* The call of line 115.
MatchesDecoded ==
    /\ pc = "ready"
    /\ \E order \in Orders :
           result' = jsonStringMatches(jsonMap, otherJsonMap, FALSE, order)
    /\ mustBeEqual' = FALSE
    /\ pc' = "done"
    /\ UNCHANGED <<jsonMap, otherJsonMap, rawStub, stub, other, emitted>>

\* The call of line 123.
EqualsDecoded ==
    /\ pc = "ready"
    /\ \E order \in Orders :
           result' = jsonStringMatches(jsonMap, otherJsonMap, TRUE, order)
    /\ mustBeEqual' = TRUE
    /\ pc' = "done"
    /\ UNCHANGED <<jsonMap, otherJsonMap, rawStub, stub, other, emitted>>

Next == MatchesDecoded \/ EqualsDecoded

Spec == Init /\ [][Next]_vars

-----------------------------------------------------------------------------
(* JSON texts given to the codec.                                          *)

RECURSIVE Render(_), RenderMembers(_, _), RenderItems(_)

\* A JSON text of a decoded value whose names and strings are one character
\* long and whose numbers are below 10.
Render(v) ==
    IF IsMap(v)
    THEN <<"{">> \o RenderMembers(v.val, SelectSeq(CHOOSE o \in Orders : TRUE,
                                                   LAMBDA k : k \in DOMAIN v.val)) \o <<"}">>
    ELSE IF IsSlice(v) THEN <<"[">> \o RenderItems(v.val) \o <<"]">>
    ELSE IF TypeOf(v) = StringType THEN <<DQuote, v.val, DQuote>>
    ELSE IF TypeOf(v) = Float64Type THEN <<DigitChars[v.val + 1]>>
    ELSE <<"n", "u", "l", "l">>

RenderMembers(m, keys) ==
    IF keys = <<>> THEN <<>>
    ELSE <<DQuote, Head(keys), DQuote, ":">> \o Render(m[Head(keys)])
         \o (IF Len(keys) > 1 THEN <<",">> ELSE <<>>) \o RenderMembers(m, Tail(keys))

RenderItems(items) ==
    IF items = <<>> THEN <<>>
    ELSE Render(Head(items)) \o (IF Len(items) > 1 THEN <<",">> ELSE <<>>)
         \o RenderItems(Tail(items))

RECURSIVE PadFrom(_, _)
PadFrom(t, i) ==
    IF i > Len(t) THEN <<>>
    ELSE (IF t[i] \in {":", ","} THEN <<t[i], " ">> ELSE <<t[i]>>) \o PadFrom(t, i + 1)

\* t with white space around it and after every colon and comma.
Spaced(t) == <<" ">> \o PadFrom(t, 1) \o <<" ">>

\* t without its last character.
CutShort(t) == SubSeq(t, 1, Len(t) - 1)

\* The texts of the objects of at most MaxTextNodes nodes.
ObjectTexts == { Render(Obj(d)) : d \in UNION { FieldsOfSize(Keys, n - 1) : n \in 1..MaxTextNodes } }

\* Texts of JSON values that are no object.
ValueTexts == { Render(v) : v \in Scalars \cup {Nil, Arr(<<>>), Arr(<<Obj([k \in {"a"} |-> Num(1)])>>)} }

\* Texts that are not valid JSON: the empty text, an object text cut short
\* or followed by another character.
BrokenTexts ==
    {<<>>} \cup { CutShort(t) : t \in ObjectTexts } \cup { EmptyObjectText \o <<c>> : c \in {"}", "1"} }

\* The texts a JsonString is made of or compared with.
Texts == ObjectTexts \cup { Spaced(t) : t \in ObjectTexts } \cup ValueTexts \cup BrokenTexts

\* The raw texts of the content field of a stub record: two objects with
\* white space, null, an array, and a text that is not valid JSON.
ContentTexts ==
    { Spaced(EmptyObjectText), Spaced(Render(Obj([k \in Keys |-> Num(1)]))),
      Render(Nil), Render(Arr(<<Num(1)>>)), <<"{">> }

\* The raw texts of the type field of a stub record.
TypeTexts == { <<"n", "u", "l", "l">>, <<DQuote, DQuote>>, <<DQuote, "m", "o", "c", "k", DQuote>>, <<DQuote, "f", "o", "r", "w", "a", "r", "d", DQuote>>, <<"1">> }

\* The stub records to decode: with or without a type and a content field.
RawStubs ==
    { [f \in fs |-> IF f = "type" THEN t ELSE c] :
          fs \in SUBSET {"type", "content"}, t \in TypeTexts, c \in ContentTexts }

-----------------------------------------------------------------------------
(* The codec and the comparisons as operations on a stub.                  *)

CodecInit ==
    /\ \/ /\ pc = "raw"
          /\ rawStub \in RawStubs
          /\ stub = ZeroStub
       \/ /\ pc = "built"
          /\ rawStub = EmptyMap
          /\ stub \in { [Type |-> "mock", Match |-> m, Content |-> c] :
                            m \in {<<"e", "x", "a", "c", "t">>}, c \in Texts }
    /\ jsonMap = EmptyMap
    /\ otherJsonMap = EmptyMap
    /\ mustBeEqual = FALSE
    /\ result = "none"
    /\ other = <<>>
    /\ emitted = <<>>

\* A stub record is decoded.
DecodeStub ==
    /\ pc = "raw"
    /\ LET r == UnmarshalStub(rawStub)
       IN  /\ stub' = r.stub
           /\ pc' = IF r.err THEN "rejected" ELSE IF r.panic THEN "panicked" ELSE "decoded"
    /\ UNCHANGED <<jsonMap, otherJsonMap, mustBeEqual, result, rawStub, other, emitted>>

\* The content of a stub built in code is canonicalized: UnmarshalJSON is
\* called on its text.
Canonicalize ==
    /\ pc = "built"
    /\ stub' = [stub EXCEPT !.Content = JsonString_UnmarshalJSON(@)]
    /\ pc' = "canonical"
    /\ UNCHANGED <<jsonMap, otherJsonMap, mustBeEqual, result, rawStub, other, emitted>>

Usable == pc \in {"decoded", "built", "canonical"}

\* The stub's request is serialized through its pointer (Stub.Request).
MarshalRequest ==
    /\ Usable
    /\ LET r == marshalStubRequest(stub, TRUE)
       IN  /\ emitted' = r.data
           /\ pc' = IF r.err THEN "marshal failed" ELSE "marshalled"
    /\ UNCHANGED <<jsonMap, otherJsonMap, mustBeEqual, result, rawStub, stub, other>>

\* The stub's request is printed with String().
PrintRequest ==
    /\ Usable
    /\ emitted' = StubRequest_String(stub)
    /\ pc' = "printed"
    /\ UNCHANGED <<jsonMap, otherJsonMap, mustBeEqual, result, rawStub, stub, other>>

\* stub.Content.Matches(o) / stub.Content.Equals(o) for a text o.
Compare(exact) ==
    /\ Usable
    /\ \E o \in Texts :
           /\ other' = o
           /\ \E order \in Orders :
                  result' = IF exact THEN Equals(stub.Content, o, order)
                            ELSE Matches(stub.Content, o, order)
    /\ mustBeEqual' = exact
    /\ pc' = "compared"
    /\ UNCHANGED <<jsonMap, otherJsonMap, rawStub, stub, emitted>>

CallMatches == Compare(FALSE)
CallEquals == Compare(TRUE)

CodecNext ==
    \/ DecodeStub
    \/ Canonicalize
    \/ MarshalRequest
    \/ PrintRequest
    \/ CallMatches
    \/ CallEquals

SpecCodec == CodecInit /\ [][CodecNext]_vars

-----------------------------------------------------------------------------
(* Properties of the comparator.                                           *)

\* A comparison of the decoded contents has run.
Compared == pc = "done"

\* C1: the comparator never raises: every comparison, in either mode and on
\* every pair of decoded objects, ends by returning true or false.
C1_NeverRaises == Compared => result \in {RetTrue, RetFalse}

\* C2: reflexivity: comparing a decoded object with itself returns true in
\* both modes.
C2_Reflexive == (Compared /\ jsonMap = otherJsonMap) => result = RetTrue

RECURSIVE FieldPaths(_)
\* The paths of field names (array positions left out) to every field of v.
FieldPaths(v) ==
    IF IsMap(v)
    THEN UNION { {<<k>>} \cup { <<k>> \o p : p \in FieldPaths(v.val[k]) } : k \in DOMAIN v.val }
    ELSE IF IsSlice(v) THEN UNION { FieldPaths(v.val[i]) : i \in DOMAIN v.val }
    ELSE {}

\* C3 (as stated): whenever Equals returns true, no object of the actual
\* content, at any level, carries a field name that the expected content
\* lacks at the same path.
C3_NoExtraFieldAnywhere ==
    (Compared /\ mustBeEqual /\ result = RetTrue)
        => FieldPaths(Obj(otherJsonMap)) \subseteq FieldPaths(Obj(jsonMap))

RECURSIVE ExactCover(_, _)
\* Every object of e has a counterpart in a with exactly its field names:
\* the object under the same field, or some element of the array under the
\* same field.
ExactCover(e, a) ==
    /\ DOMAIN e = DOMAIN a
    /\ \A k \in DOMAIN e :
           /\ IsMap(e[k]) => IsMap(a[k]) /\ ExactCover(e[k].val, a[k].val)
           /\ IsSlice(e[k]) =>
                  /\ IsSlice(a[k])
                  /\ \A i \in DOMAIN e[k].val :
                         IsMap(e[k].val[i]) =>
                             \E j \in DOMAIN a[k].val :
                                 /\ IsMap(a[k].val[j])
                                 /\ ExactCover(e[k].val[i].val, a[k].val[j].val)

\* C3 (amended): whenever Equals returns true, the top-level objects, the
\* objects nested under a field, and every expected array element together
\* with the actual element found for it have exactly the same field names.
C3_NoExtraFieldInCounterparts ==
    (Compared /\ mustBeEqual /\ result = RetTrue) => ExactCover(jsonMap, otherJsonMap)

\* An exact comparison succeeded on an array whose object elements carry fields.
C3_Witness ==
    /\ Compared /\ mustBeEqual /\ result = RetTrue
    /\ \E k \in DOMAIN jsonMap :
           /\ IsSlice(jsonMap[k])
           /\ \E i \in DOMAIN jsonMap[k].val :
                  IsMap(jsonMap[k].val[i]) /\ DOMAIN jsonMap[k].val[i].val # {}

\* Names and values of the fields added to the actual content.
ExtraKeys == Keys \cup {"c"}
ExtraValues == {Num(1), Obj(EmptyMap), Arr(<<Arr(<<>>)>>)}

RECURSIVE ExtendMap(_, _), ExtendValue(_, _)
\* The maps obtained from a by adding one field, to a itself or to an object
\* below it, whose name none of the corresponding expected objects es
\* mentions.
ExtendMap(es, a) ==
    { [x \in (DOMAIN a) \cup {k} |-> IF x = k THEN v ELSE a[x]] :
          k \in { x \in ExtraKeys \ DOMAIN a : \A e \in es : x \notin DOMAIN e },
          v \in ExtraValues }
    \cup UNION { { [a EXCEPT ![k] = w] :
                     w \in ExtendValue({ e[k] : e \in { x \in es : k \in DOMAIN x } }, a[k]) } :
                 k \in DOMAIN a }

\* The same for a value: evs are the expected values at its place.
ExtendValue(evs, v) ==
    IF IsMap(v)
    THEN { Obj(m) : m \in ExtendMap({ ev.val : ev \in { x \in evs : IsMap(x) } }, v.val) }
    ELSE IF IsSlice(v)
    THEN UNION { { Arr([v.val EXCEPT ![j] = w]) :
                     w \in ExtendValue(UNION { { ev.val[i] : i \in DOMAIN ev.val } :
                                               ev \in { x \in evs : IsSlice(x) } },
                                       v.val[j]) } :
                 j \in DOMAIN v.val }
    ELSE {}

\* C5: in partial mode, adding to the actual content a field the expected
\* content does not mention there (top level, nested object, or object that
\* is an array element) leaves the outcome of Matches unchanged.
C5_ExtraFieldTolerated ==
    (Compared /\ ~mustBeEqual) =>
        LET before == [order \in Orders |->
                          jsonStringMatches(jsonMap, otherJsonMap, FALSE, order)]
        IN  \A ext \in ExtendMap({jsonMap}, otherJsonMap) : \A order \in Orders :
                LET after == jsonStringMatches(jsonMap, ext, FALSE, order)
                IN  after = before[order] /\ (result = RetTrue => after = RetTrue)

\* A partial match succeeded where a field can still be added at the top
\* level and to an object that is an array element.
C5_Witness ==
    /\ Compared /\ ~mustBeEqual /\ result = RetTrue
    /\ \E ext \in ExtendMap({jsonMap}, otherJsonMap) : DOMAIN ext # DOMAIN otherJsonMap
    /\ \E k \in DOMAIN jsonMap :
           /\ IsSlice(jsonMap[k])
           /\ \E ext \in ExtendMap({jsonMap}, otherJsonMap) :
                  /\ DOMAIN ext = DOMAIN otherJsonMap
                  /\ ext[k] # otherJsonMap[k]

\* C6: whenever Equals returns true, Matches on the same contents returns
\* true, whatever order the fields are visited in.
C6_EqualsImpliesMatches ==
    (Compared /\ mustBeEqual /\ result = RetTrue) =>
        \A order \in Orders : jsonStringMatches(jsonMap, otherJsonMap, FALSE, order) = RetTrue

\* An exact comparison succeeded on contents with an object inside an array.
C6_Witness ==
    /\ Compared /\ mustBeEqual /\ result = RetTrue
    /\ \E k \in DOMAIN jsonMap :
           IsSlice(jsonMap[k]) /\ \E i \in DOMAIN jsonMap[k].val : IsMap(jsonMap[k].val[i])

\* otherItem is a counterpart of item: same kind, and object-matched by the
\* recursive rule (objects) or identical (scalars).
Counterpart(item, otherItem, mustEq, order) ==
    /\ TypeOf(item) = TypeOf(otherItem)
    /\ IF IsMap(item) THEN jsonStringMatches(item.val, otherItem.val, mustEq, order) = RetTrue
       ELSE IF IsSlice(item) THEN FALSE
       ELSE item = otherItem

\* The array-matching rule: equal length, and a counterpart for every element,
\* in any position and whether or not another element already uses it.
ArrayRule(items, otherItems, mustEq, order) ==
    /\ Len(items) = Len(otherItems)
    /\ \A i \in DOMAIN items : \E j \in DOMAIN otherItems :
           Counterpart(items[i], otherItems[j], mustEq, order)

\* The fields that hold an array on both sides.
ArrayFields == { k \in (DOMAIN jsonMap) \cap (DOMAIN otherJsonMap) :
                     IsSlice(jsonMap[k]) /\ IsSlice(otherJsonMap[k]) }

\* C7: in both modes a field holding an array on both sides passes exactly
\* when the array-matching rule holds of the two arrays; a comparison that
\* returns true has the rule hold of every such field.
C7_ArrayRule ==
    Compared =>
        \A k \in ArrayFields : \A order \in Orders :
            /\ matchKey(k, jsonMap, otherJsonMap, mustBeEqual, order) = RetTrue
                   <=> ArrayRule(jsonMap[k].val, otherJsonMap[k].val, mustBeEqual, order)
            /\ result = RetTrue
                   => ArrayRule(jsonMap[k].val, otherJsonMap[k].val, mustBeEqual, order)
            /\ (DOMAIN jsonMap = {k} /\ DOMAIN otherJsonMap = {k} /\ result = RetFalse)
                   => ~ArrayRule(jsonMap[k].val, otherJsonMap[k].val, mustBeEqual, order)

\* A comparison succeeded on two arrays that hold the same two elements in
\* opposite orders.
C7_Witness ==
    /\ Compared /\ result = RetTrue
    /\ \E k \in ArrayFields :
           /\ Len(jsonMap[k].val) = 2
           /\ jsonMap[k].val[1] # jsonMap[k].val[2]
           /\ jsonMap[k].val[1] = otherJsonMap[k].val[2]
           /\ jsonMap[k].val[2] = otherJsonMap[k].val[1]

\* C10: the outcome of a comparison is the same for every order in which the
\* fields of the expected objects are visited.
C10_OrderIndependent ==
    Compared =>
        \A order \in Orders :
            jsonStringMatches(jsonMap, otherJsonMap, mustBeEqual, order) = result

-----------------------------------------------------------------------------
(* Properties of the codec.                                                *)

\* C4: a stub record decoded without a type field, or with the empty string
\* as its type, has Type "mock"; no decoded stub has an empty Type.
C4_TypeDefaultsToMock ==
    pc = "decoded" =>
        /\ ("type" \notin DOMAIN rawStub \/ rawStub["type"] = <<DQuote, DQuote>>)
               => stub.Type = "mock"
        /\ stub.Type # ""

\* The text decodes to a JSON object.
DecodesToObject(t) == LET v == ParseText(t) IN v.ok /\ IsMap(v.val)

\* The number of fields the text has as an object.
NumFields(t) == Cardinality(DOMAIN jsonUnmarshalMap(t))

\* The outcome of the comparison of the two texts in the mode last used.
Outcome(j, o, order) == IF mustBeEqual THEN Equals(j, o, order) ELSE Matches(j, o, order)

\* C8: a content that is empty or does not decode to a JSON object behaves,
\* as either argument of Matches and Equals, like the text {}: as the
\* expected content it makes Matches true, and Equals true exactly when the
\* actual content has no field; no such call panics.
C8_BadContentIsEmptyObject ==
    pc = "compared" =>
        /\ ~DecodesToObject(stub.Content) =>
               /\ \A order \in Orders : result = Outcome(EmptyObjectText, other, order)
               /\ ~mustBeEqual => result = RetTrue
               /\ mustBeEqual => (result = RetTrue <=> NumFields(other) = 0)
               /\ result # Panic
        /\ ~DecodesToObject(other) =>
               /\ \A order \in Orders : result = Outcome(stub.Content, EmptyObjectText, order)
               /\ result # Panic

\* Matches returned true for an expected content cut short after a field
\* and an actual content with a field.
C8_Witness ==
    /\ pc = "compared" /\ ~mustBeEqual /\ result = RetTrue
    /\ stub.Content # <<>> /\ ~jsonValid(stub.Content)
    /\ jsonValid(stub.Content \o <<"}">>)
    /\ NumFields(stub.Content \o <<"}">>) > 0
    /\ NumFields(other) > 0

\* C9: whenever a request holding an empty content is serialized, through
\* json.Marshal or through String(), the content field of the text produced
\* is the empty object {}.
C9_EmptyContentEmitsEmptyObject ==
    (pc \in {"marshalled", "printed"} /\ stub.Content = <<>>) =>
        LET v == ParseText(emitted)
        IN  /\ v.ok /\ IsMap(v.val)
            /\ "content" \in DOMAIN v.val.val
            /\ v.val.val["content"] = Obj(EmptyMap)
=============================================================================
